---- MODULE Spec2Model ----
(***************************************************************************)
(* A model of the HTML report generator of generate_allure_report.py       *)
(* (class AllureReportGenerator): the loader, the statistics, the display  *)
(* ordering, the duration formatting and the document renderer.            *)
(*                                                                         *)
(* Python values are modelled as follows.                                  *)
(*   dict            a function; its keys are its DOMAIN                   *)
(*   list            a sequence                                            *)
(*   str (payload)   a TLA+ string, compared as a whole                    *)
(*   str (rendered   a sequence of one-character strings, so that the      *)
(*        number)    digits a formatting prints can be compared           *)
(*   None            the value None below                                  *)
(*   a call          an outcome record: raised is the exception's class    *)
(*                   name ("" when none was raised), ret the value         *)
(*                   returned                                              *)
(***************************************************************************)
EXTENDS Integers, Sequences, FiniteSets, TLC

VARIABLES
    dir_results,      \* the *-result.json files of results_dir, in glob order
    dir_containers,   \* the *-container.json files of results_dir, in glob order
    dir_attachments,  \* the *-attachment.txt files of results_dir: name -> text
    results,          \* self.results
    containers,       \* self.containers
    attachments,      \* self.attachments
    output_file,      \* the file at self.output_file
    loads,            \* how many times load_results has run
    clock,            \* what datetime.now() reads
    call,             \* the last call made on the generator and its outcome
    rendered,         \* the last two generate_html runs: inputs and outcome
    duration_ms,      \* the argument of the format_duration call
    formatted,        \* what that format_duration call returned
    request,          \* the last call made on the HTTP client and its outcome
    order,            \* the last construction of an order model and its outcome
    pc,               \* where the create_test_order fixture and its test are
    order_id,         \* the fixture's order_id
    server_orders,    \* the ids of the orders the store server holds
    events            \* what the fixture and its test have done, in order

vars == <<dir_results, dir_containers, dir_attachments, results, containers,
          attachments, output_file, loads, clock, call, rendered, duration_ms,
          formatted, request, order, pc, order_id, server_orders, events>>

dir_vars == <<dir_results, dir_containers, dir_attachments>>
gen_vars == <<results, containers, attachments>>
fmt_vars == <<duration_ms, formatted>>
fixture_vars == <<pc, order_id, server_orders, events>>
api_vars == <<request, order, fixture_vars>>
report_vars == <<dir_vars, gen_vars, output_file, loads, clock, call, rendered, fmt_vars>>

-----------------------------------------------------------------------------
(* Bounds of the model.                                                    *)

\* the largest number of result records the statistics and the ordering see
MaxResults == 3
\* the largest number of *-result.json files in the directory of a pipeline run
MaxFiles == 2
\* the largest number of load_results / generate calls on one generator
MaxLoads == 2
\* the largest duration handed to format_duration on its own
MaxDuration == 130000
\* the most negative duration handed to format_duration on its own
MaxNegative == 20
\* the latest reading of the clock
MaxClock == 1
\* the largest order id the fixture draws and the server gives out
MaxOrderId == 2

-----------------------------------------------------------------------------
(* Python helpers.                                                         *)

\* json null
None == "<None>"

\* dict.get(key, default)
Get(d, key, default) == IF key \in DOMAIN d THEN d[key] ELSE default

\* d[key] = value on a dict
DictSet(d, key, value) ==
    [k \in DOMAIN d \cup {key} |-> IF k = key THEN value ELSE d[k]]

\* str.lower() on the status strings of the model
Lower(s) ==
    CASE s = "FAILED"  -> "failed"
      [] s = "Failed"  -> "failed"
      [] s = "Broken"  -> "broken"
      [] s = "Passed"  -> "passed"
      [] s = "PASSED"  -> "passed"
      [] s = "SKIPPED" -> "skipped"
      [] s = "Unknown" -> "unknown"
      [] s = "TOTAL"   -> "total"
      [] OTHER         -> s

RECURSIVE SumSeq(_)
SumSeq(s) == IF s = <<>> THEN 0 ELSE Head(s) + SumSeq(Tail(s))

\* the empty dict {}
EmptyDict == [k \in {} |-> None]

-----------------------------------------------------------------------------
(* format_duration                                                         *)

Digits == <<"0", "1", "2", "3", "4", "5", "6", "7", "8", "9">>

RECURSIVE NatStr(_)
\* str(n) for n >= 0
NatStr(n) == IF n < 10 THEN <<Digits[n + 1]>>
             ELSE NatStr(n \div 10) \o <<Digits[(n % 10) + 1]>>

\* f"{n}" for an int
IntStr(n) == IF n < 0 THEN <<"-">> \o NatStr(-n) ELSE NatStr(n)

RECURSIVE Pow2Mod1000(_)
\* 2^k mod 1000
Pow2Mod1000(k) == IF k = 0 THEN 1 ELSE (2 * Pow2Mod1000(k - 1)) % 1000

RECURSIVE Log2Of(_, _)
\* the largest e with unit * 2^e <= d, for d >= unit
Log2Of(d, unit) == IF 2 * unit > d THEN 0 ELSE 1 + Log2Of(d, 2 * unit)

\* duration_ms / 1000 is a binary64 division: the quotient is the double
\* nearest to d/1000.  FloatErrSign is the sign of (double - d/1000): the
\* 53-bit significand is d * 2^k / 1000 rounded to nearest, k = 52 - e, so the
\* remainder of d * 2^k modulo 1000 tells on which side the double lies.
FloatErrSign(d) ==
    LET k   == 52 - Log2Of(d, 1000)
        rem == ((d % 1000) * Pow2Mod1000(k)) % 1000
    IN  IF rem = 0 THEN 0 ELSE IF rem < 500 THEN -1 ELSE 1

\* Hundredths as a formatting that cuts the digits off would print them
HundredthsCut(ms, sgn) == ms \div 10

\* The hundredths printed by f"{seconds:.2f}" where seconds is the double
\* whose exact counterpart is ms/1000 and whose error has sign sgn: the
\* double's exact binary value is rounded to two decimals, half to even.
Hundredths(ms, sgn) ==
    LET h == ms \div 10
        u == ms % 10
    IN  IF u < 5 THEN h
        ELSE IF u > 5 THEN h + 1
        ELSE IF sgn < 0 THEN h
        ELSE IF sgn > 0 THEN h + 1
        ELSE IF h % 2 = 0 THEN h ELSE h + 1

\* f"{x:.2f}" of the value h/100
Fixed2(h) == NatStr(h \div 100) \o <<".">>
             \o <<Digits[((h \div 10) % 10) + 1], Digits[(h % 10) + 1]>>

\* the seconds value printed, in hundredths: seconds, or seconds % 60 (the
\* float remainder is exact, so it carries the error of the division)
PrintedHundredths(d) ==
    IF d < 60000 THEN Hundredths(d, FloatErrSign(d))
    ELSE Hundredths(d % 60000, FloatErrSign(d))

\* int(seconds / 60)
Minutes(d) == d \div 60000

format_duration(d) ==
    IF d < 1000 THEN IntStr(d) \o <<"m", "s">>
    ELSE IF d < 60000 THEN Fixed2(PrintedHundredths(d)) \o <<"s">>
    ELSE NatStr(Minutes(d)) \o <<"m", " ">> \o Fixed2(PrintedHundredths(d)) \o <<"s">>

-----------------------------------------------------------------------------
(* get_status_color, get_status_icon                                       *)

StatusColors == [passed  |-> "#4caf50", failed  |-> "#f44336",
                 broken  |-> "#ff9800", skipped |-> "#9e9e9e",
                 unknown |-> "#607d8b"]

StatusIcons == [passed |-> "check", failed |-> "cross", broken |-> "warning",
                skipped |-> "circle", unknown |-> "?"]

\* get_status_color without the .lower(): colors.get(status, '#607d8b')
get_status_color_exact(status) == Get(StatusColors, status, "#607d8b")

get_status_color(status) == Get(StatusColors, Lower(status), "#607d8b")

get_status_icon(status) == Get(StatusIcons, Lower(status), "?")

-----------------------------------------------------------------------------
(* get_statistics                                                          *)

\* the stats dict before the loop
StatsInit == [k \in {"passed", "failed", "broken", "skipped", "unknown", "total"} |-> 0]

\* StatusRaises as result['status'].lower() would have it: a record without
\* the key raises too
StatusRaisesStrict(result) ==
    "status" \notin DOMAIN result \/ result["status"] = None

\* result.get('status', 'unknown').lower() raises AttributeError on a status
\* that is not a str (json null)
StatusRaises(result) == "status" \in DOMAIN result /\ result["status"] = None

\* result.get('status', 'unknown').lower()
StatusOf(result) == Lower(Get(result, "status", "unknown"))

\* one turn of the loop: stats[status] = stats.get(status, 0) + 1, then
\* stats['total'] += 1
CountResult(stats, result) ==
    LET status  == StatusOf(result)
        counted == DictSet(stats, status, Get(stats, status, 0) + 1)
    IN  DictSet(counted, "total", counted["total"] + 1)

RECURSIVE CountAll(_, _)
CountAll(stats, rs) ==
    IF rs = <<>> THEN stats ELSE CountAll(CountResult(stats, Head(rs)), Tail(rs))

\* the outcome of get_statistics() on self.results = rs
get_statistics(rs) ==
    IF \E i \in 1..Len(rs) : StatusRaises(rs[i])
    THEN [raised |-> "AttributeError"]
    ELSE [raised |-> "", ret |-> CountAll(StatsInit, rs)]

-----------------------------------------------------------------------------
(* generate_html                                                           *)

\* the key of sorted(): x.get('status') is None when the key is absent
SortKey(x) ==
    LET status == Get(x, "status", None)
    IN  IF status = "failed" THEN 0 ELSE IF status = "broken" THEN 1 ELSE 2

RECURSIVE InsertByKeyUnstable(_, _)
\* InsertByKey as an unstable sort would do it: x goes before its equals
InsertByKeyUnstable(s, x) ==
    IF s = <<>> THEN <<x>>
    ELSE IF SortKey(s[Len(s)]) < SortKey(x) THEN Append(s, x)
    ELSE Append(InsertByKeyUnstable(SubSeq(s, 1, Len(s) - 1), x), s[Len(s)])

RECURSIVE InsertByKey(_, _)
\* x put into the key-ordered sequence s behind every element whose key is
\* not larger: sorted() is stable
InsertByKey(s, x) ==
    IF s = <<>> THEN <<x>>
    ELSE IF SortKey(s[Len(s)]) <= SortKey(x) THEN Append(s, x)
    ELSE Append(InsertByKey(SubSeq(s, 1, Len(s) - 1), x), s[Len(s)])

RECURSIVE SortedFrom(_, _)
SortedFrom(done, rest) ==
    IF rest = <<>> THEN done
    ELSE SortedFrom(InsertByKey(done, Head(rest)), Tail(rest))

\* sorted(self.results, key=...)
sorted_results(rs) == SortedFrom(<<>>, rs)

\* sum(r.get('stop', 0) - r.get('start', 0) for r in self.results)
total_duration(rs) ==
    SumSeq([i \in 1..Len(rs) |-> Get(rs[i], "stop", 0) - Get(rs[i], "start", 0)])

\* the stat cards of the summary block, in document order
StatsBlock(stats, rs) ==
    << [card |-> "total",    color |-> "#667eea", value |-> IntStr(stats["total"])],
       [card |-> "passed",   color |-> "#4caf50", value |-> IntStr(stats["passed"])],
       [card |-> "failed",   color |-> "#f44336", value |-> IntStr(stats["failed"])],
       [card |-> "skipped",  color |-> "#9e9e9e", value |-> IntStr(stats["skipped"])],
       [card |-> "duration", color |-> "#ff9800",
        value |-> format_duration(total_duration(rs))] >>

\* ErrorSection under `if error_message:`: a trace alone shows nothing
ErrorSectionMessageOnly(result) ==
    LET status_details == Get(result, "statusDetails", EmptyDict)
        error_message  == Get(status_details, "message", "")
    IN  IF error_message = "" THEN <<>>
        ELSE << [section |-> "error",
                 items |-> <<[element |-> "message", text |-> error_message]>>] >>

\* the labels section: present when labels is a non-empty list
LabelsSection(result) ==
    LET labels == Get(result, "labels", <<>>)
    IN  IF labels = <<>> THEN <<>>
        ELSE << [section |-> "labels",
                 items |-> [i \in 1..Len(labels) |->
                               [name  |-> Get(labels[i], "name", ""),
                                value |-> Get(labels[i], "value", "")]]] >>

\* the steps section: present when steps is a non-empty list
StepsSection(result) ==
    LET steps == Get(result, "steps", <<>>)
    IN  IF steps = <<>> THEN <<>>
        ELSE << [section |-> "steps",
                 items |-> [i \in 1..Len(steps) |->
                    LET step_status == Get(steps[i], "status", "passed")
                    IN  [name  |-> Get(steps[i], "name", "Unknown Step"),
                         icon  |-> IF step_status = "passed" THEN "check" ELSE "cross",
                         color |-> IF step_status = "passed"
                                   THEN "#4caf50" ELSE "#f44336"]]] >>

\* the failure section: present when the message or the trace is non-empty
ErrorSection(result) ==
    LET status_details == Get(result, "statusDetails", EmptyDict)
        error_message  == Get(status_details, "message", "")
        error_trace    == Get(status_details, "trace", "")
    IN  IF error_message = "" /\ error_trace = "" THEN <<>>
        ELSE << [section |-> "error",
                 items |-> (IF error_message # ""
                            THEN <<[element |-> "message", text |-> error_message]>>
                            ELSE <<>>)
                        \o (IF error_trace # ""
                            THEN <<[element |-> "trace", text |-> error_trace]>>
                            ELSE <<>>)] >>

\* Resolves as a lookup with a default, self.attachments.get(source, ''),
\* would have it: every attachment gets an entry
ResolvesAlways(attachment, atts) == TRUE

\* whether an attachment's source is a key of self.attachments
Resolves(attachment, atts) == Get(attachment, "source", "") \in DOMAIN atts

RECURSIVE AttachmentItems(_, _)
\* the entries of the attachments section: one per attachment that resolves
AttachmentItems(as, atts) ==
    IF as = <<>> THEN <<>>
    ELSE (IF Resolves(Head(as), atts)
          THEN <<[title   |-> Get(Head(as), "name", "Attachment"),
                  content |-> Get(atts, Get(Head(as), "source", ""), "")]>>
          ELSE <<>>)
         \o AttachmentItems(Tail(as), atts)

\* the attachments section: present when attachments is a non-empty list
AttachmentsSection(result, atts) ==
    LET as == Get(result, "attachments", <<>>)
    IN  IF as = <<>> THEN <<>>
        ELSE << [section |-> "attachments", items |-> AttachmentItems(as, atts)] >>

\* the test card of the record at display position idx (0-based)
TestCard(idx, result, atts) ==
    LET status == StatusOf(result)
        name   == Get(result, "name", "Unknown Test")
    IN  [toggle    |-> idx,
         icon_id   |-> idx,
         body_id   |-> idx,
         status    |-> status,
         color     |-> get_status_color(status),
         icon      |-> get_status_icon(status),
         name      |-> name,
         full_name |-> Get(result, "fullName", name),
         duration  |-> format_duration(Get(result, "stop", 0) - Get(result, "start", 0)),
         sections  |-> LabelsSection(result) \o StepsSection(result)
                       \o ErrorSection(result) \o AttachmentsSection(result, atts)]

\* Document under enumerate(sorted_results, 1): the cards count from 1
DocumentOneBased(stats, rs, atts, now) ==
    LET sorted == sorted_results(rs)
    IN  [header |-> [generated |-> now, total |-> IntStr(stats["total"])],
         stats  |-> StatsBlock(stats, rs),
         tests  |-> [i \in 1..Len(sorted) |-> TestCard(i, sorted[i], atts)],
         footer |-> "PetStore API Testing Project"]

\* Document with a count of the loaded containers in the header
DocumentWithContainers(stats, rs, atts, now) ==
    LET sorted == sorted_results(rs)
    IN  [header |-> [generated |-> now, total |-> IntStr(stats["total"]),
                     containers |-> Len(containers)],
         stats  |-> StatsBlock(stats, rs),
         tests  |-> [i \in 1..Len(sorted) |-> TestCard(i - 1, sorted[i], atts)],
         footer |-> "PetStore API Testing Project"]

\* the document built from stats: header, stats block, test cards, footer
Document(stats, rs, atts, now) ==
    LET sorted == sorted_results(rs)
    IN  [header |-> [generated |-> now, total |-> IntStr(stats["total"])],
         stats  |-> StatsBlock(stats, rs),
         tests  |-> [i \in 1..Len(sorted) |-> TestCard(i - 1, sorted[i], atts)],
         footer |-> "PetStore API Testing Project"]

\* the outcome of generate_html() on self.results = rs, self.attachments =
\* atts, with datetime.now() = now
generate_html(rs, atts, now) ==
    LET stats == get_statistics(rs)
    IN  IF stats.raised # "" THEN [raised |-> stats.raised]
        ELSE [raised |-> "", ret |-> Document(stats.ret, rs, atts, now)]

-----------------------------------------------------------------------------
(* load_results                                                            *)

\* a file json.load() parses, and one it raises JSONDecodeError on
JsonFile(value) == [valid |-> TRUE, json |-> value]
BadFile == [valid |-> FALSE]

\* how many files of the sequence are read before one fails to parse
ParsedCount(files) ==
    IF \E i \in 1..Len(files) : ~files[i].valid
    THEN (CHOOSE i \in 1..Len(files) :
             ~files[i].valid /\ \A j \in 1..(i - 1) : files[j].valid) - 1
    ELSE Len(files)

\* what the loop appends before it ends or raises
Parsed(files) == [i \in 1..ParsedCount(files) |-> files[i].json]

AllValid(files) == ParsedCount(files) = Len(files)

\* self.attachments[file.name] = f.read() for every attachment file
MergeAttachments(atts, files) ==
    [k \in DOMAIN atts \cup DOMAIN files |-> IF k \in DOMAIN files THEN files[k] ELSE atts[k]]

\* load_results() on a generator whose fields are rs, cs, atts: the fields
\* afterwards, and the exception raised.  The three loops run in order and
\* the first file that fails to parse ends the call.
load_results(rs, cs, atts) ==
    IF ~AllValid(dir_results)
    THEN [raised |-> "JSONDecodeError", results |-> rs \o Parsed(dir_results),
          containers |-> cs, attachments |-> atts]
    ELSE IF ~AllValid(dir_containers)
    THEN [raised |-> "JSONDecodeError", results |-> rs \o Parsed(dir_results),
          containers |-> cs \o Parsed(dir_containers), attachments |-> atts]
    ELSE [raised |-> "", results |-> rs \o Parsed(dir_results),
          containers |-> cs \o Parsed(dir_containers),
          attachments |-> MergeAttachments(atts, dir_attachments)]

-----------------------------------------------------------------------------
(* The calls on a generator.                                               *)

NoFile == [exists |-> FALSE]
FileWith(content) == [exists |-> TRUE, content |-> content]
\* a report written by an earlier run, and a file opened for writing and
\* left empty
EarlierReport == FileWith([footer |-> "an earlier report"])
EmptyFile == FileWith([footer |-> ""])

\* the status strings handed to get_status_color and get_status_icon
StatusArgs ==
    {"passed", "failed", "broken", "skipped", "unknown", "PASSED", "Failed",
     "FAILED", "Broken", "SKIPPED", "Unknown", "flaky", "total", ""}

\* one run of generate_html, as the history keeps it
Observation(rs, cs, atts, now, out) ==
    [results |-> rs, containers |-> cs, attachments |-> atts, now |-> now, out |-> out]

\* the history keeps the last two runs
Remember(obs) ==
    IF Len(rendered) < 2 THEN Append(rendered, obs) ELSE <<rendered[2], obs>>

\* generator.load_results()
LoadResults ==
    /\ loads < MaxLoads
    /\ LET out == load_results(results, containers, attachments)
       IN  /\ results' = out.results
           /\ containers' = out.containers
           /\ attachments' = out.attachments
           /\ call' = [op |-> "load_results", raised |-> out.raised]
    /\ loads' = loads + 1
    /\ UNCHANGED <<dir_vars, output_file, clock, rendered, fmt_vars, api_vars>>

\* generator.get_statistics()
GetStatistics ==
    /\ LET out == get_statistics(results)
       IN  call' = [op |-> "get_statistics", raised |-> out.raised, out |-> out]
    /\ UNCHANGED <<dir_vars, gen_vars, output_file, loads, clock, rendered, fmt_vars, api_vars>>

\* GenerateHtml under self.results.sort(key=...): the list is ordered in place
GenerateHtmlSortInPlace ==
    /\ LET out == generate_html(results, attachments, clock)
       IN  /\ call' = [op |-> "generate_html", raised |-> out.raised, out |-> out]
           /\ rendered' = Remember(Observation(results, containers, attachments, clock, out))
           /\ results' = IF out.raised = "" THEN sorted_results(results) ELSE results
    /\ UNCHANGED <<dir_vars, containers, attachments, output_file, loads, clock, fmt_vars, api_vars>>

\* generator.generate_html(): sorted() builds the display order as a new list
GenerateHtml ==
    /\ LET out == generate_html(results, attachments, clock)
       IN  /\ call' = [op |-> "generate_html", raised |-> out.raised, out |-> out]
           /\ rendered' = Remember(Observation(results, containers, attachments, clock, out))
    /\ UNCHANGED <<dir_vars, gen_vars, output_file, loads, clock, fmt_vars, api_vars>>

\* generator.get_status_color(status)
GetStatusColor ==
    /\ \E status \in StatusArgs :
          call' = [op |-> "get_status_color", raised |-> "", status |-> status,
                   ret |-> get_status_color(status)]
    /\ UNCHANGED <<dir_vars, gen_vars, output_file, loads, clock, rendered, fmt_vars, api_vars>>

\* generator.get_status_icon(status)
GetStatusIcon ==
    /\ \E status \in StatusArgs :
          call' = [op |-> "get_status_icon", raised |-> "", status |-> status,
                   ret |-> get_status_icon(status)]
    /\ UNCHANGED <<dir_vars, gen_vars, output_file, loads, clock, rendered, fmt_vars, api_vars>>

\* OutputAfter with the file opened for writing before the report is built:
\* a failure leaves it truncated
OutputAfterOpenedFirst(file, loaded, out) ==
    IF loaded.raised # "" \/ out.raised # "" THEN EmptyFile ELSE FileWith(out.ret)

\* the output file after generate(): open(output_path, 'w') and f.write() come
\* after load_results() and generate_html() have returned
OutputAfter(file, loaded, out) ==
    IF loaded.raised # "" \/ out.raised # "" THEN file ELSE FileWith(out.ret)

\* generator.generate(): load_results(), generate_html(), then the write of
\* the output file
Generate ==
    /\ loads < MaxLoads
    /\ loads' = loads + 1
    /\ LET loaded == load_results(results, containers, attachments)
           out    == generate_html(loaded.results, loaded.attachments, clock)
       IN  /\ results' = loaded.results
           /\ containers' = loaded.containers
           /\ attachments' = loaded.attachments
           /\ IF loaded.raised # ""
              THEN /\ call' = [op |-> "generate", raised |-> loaded.raised,
                               failed_in |-> "load_results"]
                   /\ output_file' = OutputAfter(output_file, loaded, out)
                   /\ UNCHANGED rendered
              ELSE /\ rendered' = Remember(Observation(loaded.results, loaded.containers,
                                                       loaded.attachments, clock, out))
                   /\ IF out.raised # ""
                      THEN /\ call' = [op |-> "generate", raised |-> out.raised,
                                       failed_in |-> "generate_html"]
                      ELSE /\ call' = [op |-> "generate", raised |-> "",
                                       failed_in |-> ""]
                   /\ output_file' = OutputAfter(output_file, loaded, out)
    /\ UNCHANGED <<dir_vars, clock, fmt_vars, api_vars>>

\* time passes
Tick ==
    /\ clock < MaxClock
    /\ clock' = clock + 1
    /\ UNCHANGED <<dir_vars, gen_vars, output_file, loads, call, rendered, fmt_vars, api_vars>>

\* generator.format_duration(duration_ms)
FormatDuration ==
    /\ formatted = <<>>
    /\ formatted' = format_duration(duration_ms)
    /\ UNCHANGED <<dir_vars, gen_vars, output_file, loads, clock, call, rendered,
                   duration_ms, api_vars>>

-----------------------------------------------------------------------------
(* The HTTP client: api/base_request.py.                                   *)

\* the values the client hands back, one record shape per Python type
PyNone == [none |-> TRUE]
PyStr(text) == [str |-> text]
PyInt(n) == [int |-> n]
PyDict(d) == [dict |-> d]

\* the session call got no answer and raised requests' ConnectionError
NoResponse == [failure |-> "ConnectionError"]

\* a requests.Response: its status code and its body, a sequence of tokens
Response(status_code, text) == [status_code |-> status_code, text |-> text]

\* the keys of the JSON objects the server sends
JsonKeys == {"id", "petId", "code"}

\* the body {"key": n}
ObjectText(key, n) == <<"{", key, ":">> \o NatStr(n) \o <<"}">>

\* the body {"id": id, "petId": petId} of a stored order
OrderText(id, petId) ==
    <<"{", "id", ":">> \o NatStr(id) \o <<",", "petId", ":">> \o NatStr(petId) \o <<"}">>

IsDigit(c) == \E d \in 0..9 : Digits[d + 1] = c

DigitValue(c) == CHOOSE d \in 0..9 : Digits[d + 1] = c

RECURSIVE StrNat(_)
\* the value of a JSON number without sign, fraction or exponent
StrNat(s) ==
    IF Len(s) = 1 THEN DigitValue(s[1])
    ELSE 10 * StrNat(SubSeq(s, 1, Len(s) - 1)) + DigitValue(s[Len(s)])

\* a JSON number of digits only: no leading zero
IsNumberText(s) ==
    /\ Len(s) >= 1
    /\ \A i \in 1..Len(s) : IsDigit(s[i])
    /\ Len(s) > 1 => s[1] # "0"

RECURSIVE ParseMembers(_)
\* the members key: number, key: number, ... of a JSON object
ParseMembers(s) ==
    LET commas == {i \in 1..Len(s) : s[i] = ","}
        stop   == IF commas = {} THEN Len(s) + 1
                  ELSE CHOOSE i \in commas : \A j \in commas : i <= j
        member == SubSeq(s, 1, stop - 1)
        ok     == /\ Len(member) >= 3
                  /\ member[1] \in JsonKeys
                  /\ member[2] = ":"
                  /\ IsNumberText(SubSeq(member, 3, Len(member)))
        rest   == IF stop > Len(s) THEN [ok |-> TRUE, dict |-> EmptyDict]
                  ELSE ParseMembers(SubSeq(s, stop + 1, Len(s)))
    IN  IF ~ok \/ ~rest.ok THEN [ok |-> FALSE, dict |-> EmptyDict]
        ELSE [ok |-> TRUE,
              dict |-> IF member[1] \in DOMAIN rest.dict THEN rest.dict
                       ELSE DictSet(rest.dict, member[1],
                                    StrNat(SubSeq(member, 3, Len(member))))]

\* the text is a JSON object
IsObjectText(s) ==
    /\ Len(s) >= 2
    /\ s[1] = "{"
    /\ s[Len(s)] = "}"
    /\ Len(s) > 2 => ParseMembers(SubSeq(s, 2, Len(s) - 1)).ok

\* response.json() succeeds
IsJson(s) == s = <<"null">> \/ IsNumberText(s) \/ IsObjectText(s)

\* response.json() on a body that is JSON
json(s) ==
    IF s = <<"null">> THEN PyNone
    ELSE IF IsNumberText(s) THEN PyInt(StrNat(s))
    ELSE IF Len(s) = 2 THEN PyDict(EmptyDict)
    ELSE PyDict(ParseMembers(SubSeq(s, 2, Len(s) - 1)).dict)

\* response.raise_for_status() raises HTTPError
IsErrorStatus(status_code) == status_code >= 400 /\ status_code < 600

\* the subclasses of requests.exceptions.RequestException
RequestExceptions == {"ConnectionError", "HTTPError"}

\* what the try block of _request raises, "" when nothing
RequestRaises(request_type, reply, expected_error) ==
    IF request_type \notin {"GET", "POST", "PUT", "DELETE"} THEN "ValueError"
    ELSE IF reply = NoResponse THEN "ConnectionError"
    ELSE IF ~expected_error /\ IsErrorStatus(reply.status_code) THEN "HTTPError"
    ELSE ""

\* _request with no except clause: whatever the try block raises goes on
\* to the caller
_request_reraising(request_type, reply, expected_error) ==
    LET exc == RequestRaises(request_type, reply, expected_error)
    IN  IF exc # "" THEN [raised |-> exc]
        ELSE [raised |-> "", response |-> reply]

\* self._request(url, request_type, expected_error=expected_error): the
\* except clause takes every RequestException and the response is returned
_request(request_type, reply, expected_error) ==
    LET exc == RequestRaises(request_type, reply, expected_error)
    IN  IF exc # "" /\ exc \notin RequestExceptions THEN [raised |-> exc]
        ELSE [raised |-> "",
              response |-> IF reply = NoResponse THEN PyNone ELSE reply]

\* JsonOrText that never tries response.json()
TextOnly(response) ==
    IF response = PyNone THEN [raised |-> "AttributeError"]
    ELSE [raised |-> "", ret |-> PyStr(response.text)]

\* try: return response.json()  except: return response.text
JsonOrText(response) ==
    IF response = PyNone THEN [raised |-> "AttributeError"]
    ELSE IF IsJson(response.text) THEN [raised |-> "", ret |-> json(response.text)]
    ELSE [raised |-> "", ret |-> PyStr(response.text)]

\* what a client method returns for the server's reply
Method(request_type, reply, expected_error) ==
    LET requested == _request(request_type, reply, expected_error)
    IN  IF requested.raised # "" THEN requested
        ELSE JsonOrText(requested.response)

get(reply, expected_error) == Method("GET", reply, expected_error)

post(reply) == Method("POST", reply, FALSE)

put(reply) == Method("PUT", reply, FALSE)

delete(reply, expected_error) == Method("DELETE", reply, expected_error)

\* the status codes the server answers with
StatusCodes == {200, 400, 404, 500}

\* the bodies the server answers with: JSON and not JSON
Bodies ==
    { <<>>, <<"null">>, <<"{", "}">>, <<"7">>, <<"0", "7">>, <<"O", "K">>,
      ObjectText("id", 1), ObjectText("code", 404), OrderText(12, 3),
      <<"{", "id", ":", "1">>, <<"{", "id", ":", "1", ",", "}">> }

Replies == {NoResponse} \cup {Response(c, t) : c \in StatusCodes, t \in Bodies}

\* client.get(endpoint, endpoint_id, expected_error)
HttpGet ==
    /\ \E reply \in Replies, expected_error \in BOOLEAN :
          request' = [op |-> "get", expected_error |-> expected_error,
                      reply |-> reply, out |-> get(reply, expected_error)]
    /\ UNCHANGED <<report_vars, order, fixture_vars>>

\* client.post(endpoint, json_data)
HttpPost ==
    /\ \E reply \in Replies :
          request' = [op |-> "post", expected_error |-> FALSE,
                      reply |-> reply, out |-> post(reply)]
    /\ UNCHANGED <<report_vars, order, fixture_vars>>

\* client.put(endpoint, json_data)
HttpPut ==
    /\ \E reply \in Replies :
          request' = [op |-> "put", expected_error |-> FALSE,
                      reply |-> reply, out |-> put(reply)]
    /\ UNCHANGED <<report_vars, order, fixture_vars>>

\* client.delete(endpoint, endpoint_id, expected_error)
HttpDelete ==
    /\ \E reply \in Replies, expected_error \in BOOLEAN :
          request' = [op |-> "delete", expected_error |-> expected_error,
                      reply |-> reply, out |-> delete(reply, expected_error)]
    /\ UNCHANGED <<report_vars, order, fixture_vars>>

-----------------------------------------------------------------------------
(* The order models: api/store_api.py.                                     *)

\* allowed_statuses
AllowedStatuses == {"placed", "approved", "delivered"}

\* validate_status without the allow-list
validate_status_any(v) == [raised |-> "", ret |-> v]

\* Order.validate_status and OrderCreate.validate_status
validate_status(v) ==
    IF v \notin AllowedStatuses THEN [raised |-> "ValueError"]
    ELSE [raised |-> "", ret |-> v]

\* the status field fails: the validator runs on a given value only
StatusFails(args) ==
    "status" \in DOMAIN args /\ validate_status(args["status"]).raised # ""

\* the fields of Order(**args) that fail validation
OrderErrors(args) ==
    (IF "petId" \notin DOMAIN args \/ args["petId"] < 0 THEN {"petId"} ELSE {})
    \cup (IF "quantity" \in DOMAIN args /\ args["quantity"] < 0
          THEN {"quantity"} ELSE {})
    \cup (IF StatusFails(args) THEN {"status"} ELSE {})

\* the fields of OrderCreate(**args) that fail validation
OrderCreateErrors(args) ==
    (IF "petId" \notin DOMAIN args \/ args["petId"] <= 0 THEN {"petId"} ELSE {})
    \cup (IF "quantity" \in DOMAIN args
             /\ (args["quantity"] < 1 \/ args["quantity"] > 1000)
          THEN {"quantity"} ELSE {})
    \cup (IF StatusFails(args) THEN {"status"} ELSE {})

\* the model object: the given values and the defaults of the other fields
ModelObject(args) ==
    [id       |-> IF "id" \in DOMAIN args THEN PyInt(args["id"]) ELSE PyNone,
     petId    |-> args["petId"],
     quantity |-> Get(args, "quantity", 1),
     status   |-> Get(args, "status", "placed"),
     complete |-> FALSE]

\* Order(**args)
Order(args) ==
    IF OrderErrors(args) # {}
    THEN [raised |-> "ValidationError", errors |-> OrderErrors(args)]
    ELSE [raised |-> "", obj |-> ModelObject(args)]

\* OrderCreate(**args)
OrderCreate(args) ==
    IF OrderCreateErrors(args) # {}
    THEN [raised |-> "ValidationError", errors |-> OrderCreateErrors(args)]
    ELSE [raised |-> "", obj |-> ModelObject(args)]

\* the keyword arguments: each of petId, quantity, status given or left out
\* (a sequence of length 0 or 1 each)
KeywordArgs(petId, quantity, status) ==
    [k \in (IF petId = <<>> THEN {} ELSE {"petId"})
           \cup (IF quantity = <<>> THEN {} ELSE {"quantity"})
           \cup (IF status = <<>> THEN {} ELSE {"status"})
       |-> CASE k = "petId" -> petId[1]
             [] k = "quantity" -> quantity[1]
             [] k = "status" -> status[1]]

PetIdArgs == {<<>>, <<-1>>, <<0>>, <<1>>}

QuantityArgs == {<<>>, <<-1>>, <<0>>, <<1>>, <<1000>>, <<1001>>}

StatusValueArgs ==
    {<<>>, <<"placed">>, <<"approved">>, <<"delivered">>, <<"Placed">>,
     <<"shipped">>, <<"available">>, <<"">>}

OrderArgs ==
    {KeywordArgs(p, q, st) : p \in PetIdArgs, q \in QuantityArgs, st \in StatusValueArgs}

\* Order(**args)
NewOrder ==
    /\ \E args \in OrderArgs :
          order' = [op |-> "Order", args |-> args, out |-> Order(args)]
    /\ UNCHANGED <<report_vars, request, fixture_vars>>

\* OrderCreate(**args)
NewOrderCreate ==
    /\ \E args \in OrderArgs :
          order' = [op |-> "OrderCreate", args |-> args, out |-> OrderCreate(args)]
    /\ UNCHANGED <<report_vars, request, fixture_vars>>

-----------------------------------------------------------------------------
(* The create_test_order fixture and its tests: conftest.py,               *)
(* tests/test_store_api.py.                                                *)

OrderIds == 1..MaxOrderId

\* the server holds the order that str(order_id) names
Stored(oid) == oid # PyNone /\ oid.int \in server_orders

\* what the server may answer to POST /store/order: the stored order under
\* an id of the server's choosing, an error, a body that is not JSON, or
\* nothing
PlaceAnswers ==
    { [reply |-> Response(200, OrderText(sid, 1)),
       orders |-> server_orders \cup {sid},
       server_id |-> PyInt(sid)] : sid \in OrderIds }
    \cup { [reply |-> Response(500, ObjectText("code", 500)),
            orders |-> server_orders, server_id |-> PyNone],
           [reply |-> Response(502, <<"B", "a", "d">>),
            orders |-> server_orders, server_id |-> PyNone],
           [reply |-> NoResponse,
            orders |-> server_orders, server_id |-> PyNone] }

\* what the server may answer to GET /store/order/{order_id}
GetAnswers(oid) ==
    { IF Stored(oid) THEN Response(200, OrderText(oid.int, 1))
      ELSE Response(404, ObjectText("code", 1)),
      NoResponse }

\* what the server may answer to DELETE /store/order/{order_id}
DeleteAnswers(oid) ==
    { IF Stored(oid)
      THEN [reply |-> Response(200, ObjectText("code", 200)),
            orders |-> server_orders \ {oid.int}]
      ELSE [reply |-> Response(404, ObjectText("code", 404)),
            orders |-> server_orders],
      [reply |-> NoResponse, orders |-> server_orders] }

\* store_api.place_order(order_data)
place_order(reply) == post(reply)

\* store_api.get_order_by_id(order_id)
get_order_by_id(reply) == get(reply, FALSE)

\* store_api.delete_order(order_id)
delete_order(reply) == delete(reply, FALSE)

\* response.get('id') on what place_order returned
ResponseGetId(response) ==
    IF "dict" \notin DOMAIN response THEN [raised |-> "AttributeError"]
    ELSE [raised |-> "",
          ret |-> IF "id" \in DOMAIN response.dict
                  THEN PyInt(response.dict["id"]) ELSE PyNone]

\* the classes `except Exception` takes
Exceptions ==
    {"AttributeError", "ValueError", "TypeError", "AssertionError",
     "ValidationError", "ConnectionError", "HTTPError"}

\* the fixture up to its yield: the order is built, placed, and its id read
Setup ==
    /\ pc = "setup"
    /\ \E id \in OrderIds, answer \in PlaceAnswers :
          LET order_data == OrderCreate([id |-> id, petId |-> 1, quantity |-> 1,
                                         status |-> "placed"])
              response   == place_order(answer.reply)
              read       == IF response.raised # "" THEN response
                            ELSE ResponseGetId(response.ret)
              raised     == IF order_data.raised # "" THEN order_data.raised
                            ELSE read.raised
          IN  /\ events' = Append(events, [ev |-> "place_order", id |-> id,
                                           server_id |-> answer.server_id,
                                           raised |-> raised])
              /\ server_orders' = IF order_data.raised # "" THEN server_orders
                                  ELSE answer.orders
              /\ IF raised = ""
                 THEN pc' = "test" /\ order_id' = read.ret
                 ELSE pc' = "setup_error" /\ order_id' = order_id
    /\ UNCHANGED <<report_vars, request, order>>

\* test_get_order_by_id(store_api, create_test_order)
TestGetOrderById ==
    /\ pc = "test"
    /\ \E reply \in GetAnswers(order_id) :
          LET response == get_order_by_id(reply)
              raised ==
                  IF response.raised # "" THEN response.raised
                  ELSE IF "dict" \notin DOMAIN response.ret THEN "TypeError"
                  ELSE IF Order(response.ret.dict).raised # "" THEN "ValidationError"
                  ELSE IF Order(response.ret.dict).obj.id # order_id
                       THEN "AssertionError"
                  ELSE ""
          IN  events' = Append(events, [ev |-> "test", test |-> "test_get_order_by_id",
                                        order_id |-> order_id, raised |-> raised])
    /\ pc' = "teardown"
    /\ UNCHANGED <<report_vars, request, order, order_id, server_orders>>

\* test_delete_order(store_api, create_test_order)
TestDeleteOrder ==
    /\ pc = "test"
    /\ \E answer \in DeleteAnswers(order_id) :
          LET response == delete_order(answer.reply)
              raised ==
                  IF response.raised # "" THEN response.raised
                  ELSE IF response.ret = PyNone THEN "AssertionError"
                  ELSE ""
          IN  /\ events' = Append(events, [ev |-> "test", test |-> "test_delete_order",
                                           order_id |-> order_id, raised |-> raised])
              /\ server_orders' = answer.orders
    /\ pc' = "teardown"
    /\ UNCHANGED <<report_vars, request, order, order_id>>

\* Teardown with the delete outside any try
TeardownUnguarded ==
    /\ pc = "teardown"
    /\ \E answer \in DeleteAnswers(order_id) :
          LET response == delete_order(answer.reply)
          IN  /\ events' = Append(events, [ev |-> "cleanup", order_id |-> order_id,
                                           raised |-> response.raised,
                                           propagated |-> response.raised])
              /\ server_orders' = answer.orders
    /\ pc' = "done"
    /\ UNCHANGED <<report_vars, request, order, order_id>>

\* the fixture after its yield: try: delete_order(order_id)
\* except Exception: print
Teardown ==
    /\ pc = "teardown"
    /\ \E answer \in DeleteAnswers(order_id) :
          LET response == delete_order(answer.reply)
          IN  /\ events' = Append(events, [ev |-> "cleanup", order_id |-> order_id,
                                           raised |-> response.raised,
                                           propagated |-> IF response.raised \in Exceptions
                                                          THEN "" ELSE response.raised])
              /\ server_orders' = answer.orders
    /\ pc' = "done"
    /\ UNCHANGED <<report_vars, request, order, order_id>>

-----------------------------------------------------------------------------
(* The inputs.                                                             *)

RECURSIVE SeqsUpTo(_, _)
\* the sequences over S of length at most n
SeqsUpTo(S, n) ==
    IF n = 0 THEN {<<>>}
    ELSE LET shorter == SeqsUpTo(S, n - 1)
         IN  shorter \cup {Append(s, x) : s \in shorter, x \in S}

\* result records that differ in their status
StatusRecords ==
    { [name |-> "test_a", status |-> "passed", start |-> 0, stop |-> 500],
      [name |-> "test_b", status |-> "failed", start |-> 1000, stop |-> 2500],
      [name |-> "test_c", status |-> "failed", start |-> 0, stop |-> 61000],
      [name |-> "test_d", status |-> "broken", start |-> 0, stop |-> 0],
      [name |-> "test_e", status |-> "skipped", start |-> 10, stop |-> 5],
      [name |-> "test_f", status |-> "FAILED"],
      [name |-> "test_g", status |-> "total"],
      [name |-> "test_h", status |-> "flaky"],
      [name |-> "test_i"] }

\* a result record with every field
FullRecord ==
    [name |-> "test_order", fullName |-> "tests.test_store_api#test_order",
     status |-> "failed", start |-> 1000, stop |-> 2500,
     steps |-> << [name |-> "place order", status |-> "passed"],
                  [name |-> "check order", status |-> "failed"] >>,
     labels |-> << [name |-> "feature", value |-> "Store"] >>,
     attachments |-> << [name |-> "response", source |-> "1-attachment.txt",
                         type |-> "text/plain"],
                        [name |-> "request", source |-> "2-attachment.txt",
                         type |-> "text/plain"] >>,
     statusDetails |-> [message |-> "AssertionError", trace |-> "Traceback"]]

ResultKeys == {"name", "fullName", "status", "start", "stop", "steps", "labels",
               "attachments", "statusDetails"}

\* the records that have some of the fields of FullRecord
PartialRecords == { [k \in keys |-> FullRecord[k]] : keys \in SUBSET ResultKeys }

\* the statusDetails a record may carry
StatusDetails ==
    { EmptyDict, [message |-> ""], [message |-> "AssertionError"],
      [trace |-> "Traceback"], [message |-> "", trace |-> ""],
      [message |-> "", trace |-> "Traceback"],
      [message |-> "AssertionError", trace |-> ""],
      [message |-> "AssertionError", trace |-> "Traceback"] }

\* records of either outcome with and without each kind of statusDetails
DetailRecords ==
    { [name |-> "test_p", status |-> st] : st \in {"passed", "failed"} }
    \cup { [name |-> "test_p", status |-> st, statusDetails |-> sd] :
              st \in {"passed", "failed"}, sd \in StatusDetails }

\* the result files of the pipeline runs: a record with every field, a record
\* whose status is json null, and a file that is not JSON
PipelineFiles ==
    { JsonFile(FullRecord),
      JsonFile([name |-> "test_n", status |-> None]),
      BadFile }

ContainerDirs ==
    { <<JsonFile([uuid |-> "c1", children |-> <<"r1">>])>>, <<BadFile>> }

\* the attachment files of a directory: 2-attachment.txt is not among them
AttachmentFiles == [k \in {"1-attachment.txt"} |-> "HTTP 200 <b>ok</b>"]

AttachmentDirs == {EmptyDict, AttachmentFiles}

\* the generator after __init__, and the output path before the run
InitGenerator ==
    /\ results = <<>>
    /\ containers = <<>>
    /\ attachments = EmptyDict
    /\ loads = 0
    /\ clock = 0
    /\ call = [op |-> "__init__", raised |-> ""]
    /\ rendered = <<>>

\* format_duration has not been called on its own
NoFormatCall ==
    /\ duration_ms = 0
    /\ formatted = <<>>

\* no HTTP call, no order model, no fixture run
NoApiCall ==
    /\ request = [op |-> "none"]
    /\ order = [op |-> "none"]
    /\ pc = "idle"
    /\ order_id = PyNone
    /\ server_orders = {}
    /\ events = <<>>

Init ==
    /\ dir_results \in SeqsUpTo(PipelineFiles, MaxFiles)
    /\ dir_containers \in ContainerDirs
    /\ dir_attachments = AttachmentFiles
    /\ output_file \in {NoFile, EarlierReport}
    /\ InitGenerator
    /\ NoFormatCall
    /\ NoApiCall

Next == LoadResults \/ GetStatistics \/ GenerateHtml \/ Generate \/ Tick

Spec == Init /\ [][Next]_vars

\* the generator after load_results() has read a directory once
InitLoaded(files, atts) ==
    /\ dir_results = files
    /\ dir_containers = <<>>
    /\ dir_attachments = atts
    /\ output_file = NoFile
    /\ results = Parsed(files)
    /\ containers = <<>>
    /\ attachments = atts
    /\ loads = 1
    /\ clock = 0
    /\ call = [op |-> "load_results", raised |-> ""]
    /\ NoApiCall
    /\ rendered = <<>>
    /\ NoFormatCall

\* the statistics and the ordering over records of every status
InitStats ==
    \E files \in SeqsUpTo({JsonFile(r) : r \in StatusRecords}, MaxResults) :
        InitLoaded(files, EmptyDict)

NextStats == GetStatistics \/ GenerateHtml

SpecStats == InitStats /\ [][NextStats]_vars

\* the rendering of records that lack fields
InitFields ==
    \E r \in PartialRecords \cup DetailRecords, atts \in AttachmentDirs :
        InitLoaded(<<JsonFile(r)>>, atts)

SpecFields == InitFields /\ [][NextStats]_vars

\* the color and the icon of a status, asked of a generator that holds one
\* record
InitStyle ==
    \E r \in StatusRecords : InitLoaded(<<JsonFile(r)>>, EmptyDict)

NextStyle == GetStatusColor \/ GetStatusIcon

SpecStyle == InitStyle /\ [][NextStyle]_vars

\* format_duration on its own
InitFmt ==
    /\ dir_results = <<>>
    /\ dir_containers = <<>>
    /\ dir_attachments = EmptyDict
    /\ output_file = NoFile
    /\ InitGenerator
    /\ duration_ms \in (0 - MaxNegative)..MaxDuration
    /\ formatted = <<>>
    /\ NoApiCall

NextFmt == FormatDuration

SpecFmt == InitFmt /\ [][NextFmt]_vars

\* nothing loaded, nothing rendered: the API client and the models on their own
InitApi ==
    /\ dir_results = <<>>
    /\ dir_containers = <<>>
    /\ dir_attachments = EmptyDict
    /\ output_file = NoFile
    /\ InitGenerator
    /\ NoFormatCall
    /\ NoApiCall

NextHttp == HttpGet \/ HttpPost \/ HttpPut \/ HttpDelete

SpecHttp == InitApi /\ [][NextHttp]_vars

NextOrder == NewOrder \/ NewOrderCreate

SpecOrder == InitApi /\ [][NextOrder]_vars

\* a test that asks for create_test_order is about to run; the server may
\* hold orders of earlier runs
InitFixture ==
    /\ dir_results = <<>>
    /\ dir_containers = <<>>
    /\ dir_attachments = EmptyDict
    /\ output_file = NoFile
    /\ InitGenerator
    /\ NoFormatCall
    /\ request = [op |-> "none"]
    /\ order = [op |-> "none"]
    /\ pc = "setup"
    /\ order_id = PyNone
    /\ server_orders \in SUBSET OrderIds
    /\ events = <<>>

NextFixture == Setup \/ TestGetOrderById \/ TestDeleteOrder \/ Teardown

SpecFixture == InitFixture /\ [][NextFixture]_vars

-----------------------------------------------------------------------------
(* Helpers of the properties.                                              *)

\* the last call was op and it returned
Returned(op) == call.op = op /\ call.raised = ""

\* the document the last generate_html() returned
Doc == call.out.ret

\* the stats the last get_statistics() returned
Stats == call.out.ret

RECURSIVE SumValues(_, _)
\* the sum of f over keys
SumValues(f, keys) ==
    IF keys = {} THEN 0
    ELSE LET k == CHOOSE x \in keys : TRUE
         IN  f[k] + SumValues(f, keys \ {k})

StatusBuckets == {"passed", "failed", "broken", "skipped", "unknown"}

\* the display tier of a record as the ordering rule states it
Tier(r) ==
    IF "status" \in DOMAIN r /\ r["status"] = "failed" THEN 0
    ELSE IF "status" \in DOMAIN r /\ r["status"] = "broken" THEN 1
    ELSE 2

\* the statuses of the loaded records, in order (absent: None)
Statuses == [i \in 1..Len(results) |-> Get(results[i], "status", None)]

-----------------------------------------------------------------------------
(* C1..C5: statistics, display order, summary block, empty report.         *)

\* C1: get_statistics returns 'total' equal to the number of loaded records,
\* whatever the status strings of the records are.
C1_TotalIsCount ==
    Returned("get_statistics") => Stats["total"] = Len(results)

\* C2: the per-status counts returned by get_statistics (every key other
\* than 'total') add up to 'total'.
C2_BucketsSumToTotal ==
    Returned("get_statistics") =>
        SumValues(Stats, DOMAIN Stats \ {"total"}) = Stats["total"]

\* C3: the test cards of the document are the loaded records in a stable
\* partition: a permutation of results in which failed records come before
\* broken ones, broken ones before all others, and records of one tier keep
\* their relative order.
C3_StablePartition ==
    Returned("generate_html") =>
        LET n == Len(results)
        IN  /\ Len(Doc.tests) = n
            /\ \E p \in [1..n -> 1..n] :
                  /\ \A i, j \in 1..n : i # j => p[i] # p[j]
                  /\ \A i \in 1..n : Doc.tests[i] = TestCard(i - 1, results[p[i]], attachments)
                  /\ \A i, j \in 1..n : i < j =>
                        /\ Tier(results[p[i]]) <= Tier(results[p[j]])
                        /\ Tier(results[p[i]]) = Tier(results[p[j]]) => p[i] < p[j]

\* C3 witness: for statuses passed, failed, failed both failed records are
\* rendered before the passed one, in their original order.
C3_Witness ==
    /\ Returned("generate_html")
    /\ Statuses = <<"passed", "failed", "failed">>
    /\ results[2] # results[3]
    /\ [i \in 1..3 |-> Doc.tests[i].name]
         = <<results[2]["name"], results[3]["name"], results[1]["name"]>>

\* C4: the summary block has an entry for each of the five status buckets,
\* showing that bucket's count.
C4_SummaryHasEveryBucket ==
    Returned("generate_html") =>
        \A b \in StatusBuckets :
            \E i \in 1..Len(Doc.stats) :
                /\ Doc.stats[i].card = b
                /\ Doc.stats[i].value = IntStr(get_statistics(results).ret[b])

\* C5: rendering zero records returns a document with header, summary and
\* footer that shows total 0, every status bucket at 0, a total duration of
\* 0ms and no test card.
C5_EmptyReport ==
    (call.op = "generate_html" /\ results = <<>>) =>
        /\ call.raised = ""
        /\ DOMAIN Doc = {"header", "stats", "tests", "footer"}
        /\ Doc.header.total = <<"0">>
        /\ \E i \in 1..Len(Doc.stats) :
              Doc.stats[i].card = "total" /\ Doc.stats[i].value = <<"0">>
        /\ \A b \in StatusBuckets :
              \E i \in 1..Len(Doc.stats) :
                  Doc.stats[i].card = b /\ Doc.stats[i].value = <<"0">>
        /\ \E i \in 1..Len(Doc.stats) :
              Doc.stats[i].card = "duration" /\ Doc.stats[i].value = <<"0", "m", "s">>
        /\ Doc.tests = <<>>

-----------------------------------------------------------------------------
(* C6: format_duration.                                                    *)

\* h/100 is d/1000 to two decimal places: no hundredth is nearer
NearestHundredth(h, d) == 10 * h - d <= 5 /\ d - 10 * h <= 5

\* C6: format_duration(d) prints d and 'ms' below 1000; d/1000 to two
\* decimal places and 's' from 1000 up to 60000; and from 60000 on
\* floor(d/60000), 'm' and the remaining seconds to two decimal places.  500
\* gives "500ms", 1500 gives "1.50s", 61000 gives "1m 1.00s".
C6_FormatDuration ==
    formatted # <<>> =>
        LET d == duration_ms
        IN  /\ d < 1000 => formatted = IntStr(d) \o <<"m", "s">>
            /\ (1000 <= d /\ d < 60000) =>
                  \E h \in {d \div 10, d \div 10 + 1} :
                      /\ NearestHundredth(h, d)
                      /\ formatted = Fixed2(h) \o <<"s">>
            /\ d >= 60000 =>
                  \E h \in {(d % 60000) \div 10, (d % 60000) \div 10 + 1} :
                      /\ NearestHundredth(h, d % 60000)
                      /\ formatted = NatStr(d \div 60000) \o <<"m", " ">>
                                     \o Fixed2(h) \o <<"s">>
            /\ d = 500 => formatted = <<"5", "0", "0", "m", "s">>
            /\ d = 1500 => formatted = <<"1", ".", "5", "0", "s">>
            /\ d = 61000 => formatted = <<"1", "m", " ", "1", ".", "0", "0", "s">>

\* C6 witness: 61000 ms has been formatted as "1m 1.00s".
C6_Witness ==
    /\ duration_ms = 61000
    /\ formatted = <<"1", "m", " ", "1", ".", "0", "0", "s">>

-----------------------------------------------------------------------------
(* C7..C10: attachments, the write of the report, missing fields,          *)
(* determinism.                                                            *)

\* the entries of the attachments section of a test card (none without one)
AttachmentEntries(card) ==
    IF \E k \in 1..Len(card.sections) : card.sections[k].section = "attachments"
    THEN (CHOOSE sec \in {card.sections[k] : k \in 1..Len(card.sections)} :
              sec.section = "attachments").items
    ELSE <<>>

\* the attachments of a record whose source is a key of the mapping
ResolvedIdx(r) ==
    {k \in 1..Len(Get(r, "attachments", <<>>)) :
        Get(r["attachments"][k], "source", "") \in DOMAIN attachments}

\* C7: rendering does not raise on attachments; the card of a record has one
\* entry per attachment whose source is a key of the attachment mapping,
\* holding the mapped content as it is, and no entry for an attachment whose
\* source is not a key.
C7_AttachmentResolution ==
    (call.op = "generate_html" /\ \A i \in 1..Len(results) : ~StatusRaises(results[i])) =>
        /\ call.raised = ""
        /\ \A i \in 1..Len(results) :
              LET r       == sorted_results(results)[i]
                  entries == AttachmentEntries(Doc.tests[i])
              IN  /\ Len(entries) = Cardinality(ResolvedIdx(r))
                  /\ \A k \in ResolvedIdx(r) :
                        \E e \in 1..Len(entries) :
                            /\ entries[e].content = attachments[r["attachments"][k]["source"]]
                            /\ entries[e].title = Get(r["attachments"][k], "name", "Attachment")

\* C7 witness: a rendered record with one attachment that resolves and one
\* that dangles has exactly one entry.
C7_Witness ==
    /\ Returned("generate_html")
    /\ \E i \in 1..Len(results) :
          LET r == sorted_results(results)[i]
          IN  /\ Len(Get(r, "attachments", <<>>)) = 2
              /\ Cardinality(ResolvedIdx(r)) = 1
              /\ Len(AttachmentEntries(Doc.tests[i])) = 1
              /\ AttachmentEntries(Doc.tests[i])[1].content = "HTTP 200 <b>ok</b>"

\* C8: a generate() in which load_results or generate_html raised leaves the
\* output file as it was (the exception is the outcome of generate), and the
\* output file only ever changes in a generate() that raised nothing, to the
\* document rendered from the loaded records.
C8_NoPartialReport ==
    [][ /\ (call'.op = "generate" /\ call'.raised # "") => output_file' = output_file
        /\ output_file' # output_file =>
              /\ call'.op = "generate" /\ call'.raised = ""
              /\ loads' = loads + 1
              /\ output_file' = FileWith(generate_html(results', attachments', clock).ret)
      ]_vars

\* C8 witness: generate() has failed on a malformed file and the earlier
\* report is still in place.
C8_Witness ==
    /\ call.op = "generate"
    /\ call.raised = "JSONDecodeError"
    /\ output_file = EarlierReport

\* C9: generate_html returns for a record that lacks any of its keys, and
\* the card shows the defaults: status 'unknown', name 'Unknown Test',
\* fullName the name, start and stop 0, and no section for absent steps,
\* labels, attachments or statusDetails.
C9_MissingFields ==
    (call.op = "generate_html" /\ Len(results) = 1) =>
        /\ call.raised = ""
        /\ Len(Doc.tests) = 1
        /\ LET r        == results[1]
               card     == Doc.tests[1]
               has(k)   == k \in DOMAIN r
               sections == {card.sections[k].section : k \in 1..Len(card.sections)}
           IN  /\ ~has("status") => card.status = "unknown"
               /\ ~has("name") => card.name = "Unknown Test"
               /\ ~has("fullName") => card.full_name = card.name
               /\ (~has("start") /\ ~has("stop")) => card.duration = <<"0", "m", "s">>
               /\ (~has("start") /\ has("stop")) =>
                     card.duration = format_duration(r["stop"] - 0)
               /\ (has("start") /\ ~has("stop")) =>
                     card.duration = format_duration(0 - r["start"])
               /\ ~has("steps") => "steps" \notin sections
               /\ ~has("labels") => "labels" \notin sections
               /\ ~has("attachments") => "attachments" \notin sections
               /\ ~has("statusDetails") => "error" \notin sections

\* C9 witness: a record with no key at all has been rendered.
C9_Witness ==
    /\ Returned("generate_html")
    /\ Len(results) = 1
    /\ DOMAIN results[1] = {}
    /\ Doc.tests[1].name = "Unknown Test"
    /\ Doc.tests[1].sections = <<>>

-----------------------------------------------------------------------------
(* C11, C15..C18, C20: the generator, continued.                           *)

\* C11: a get_statistics or generate_html call leaves results (its records
\* and their order), containers and attachments as they were.
C11_ReadOnly ==
    [][ call'.op \in {"get_statistics", "generate_html"} =>
            /\ results' = results
            /\ containers' = containers
            /\ attachments' = attachments ]_vars

\* C11 witness: a document has been rendered whose display order differs
\* from the order of results, and results is still what was loaded.
C11_Witness ==
    /\ Returned("generate_html")
    /\ Len(results) >= 2
    /\ sorted_results(results) # results
    /\ [i \in 1..Len(results) |-> Doc.tests[i].name]
         # [i \in 1..Len(results) |-> Get(results[i], "name", "Unknown Test")]
    /\ results = Parsed(dir_results)

\* C15: get_status_color and get_status_icon return, for a status that is
\* one of the five recognised ones in any letter case, that status's own
\* color and icon, and for every other status string the color '#607d8b'
\* and the icon '?', which are those of 'unknown'.
C15_StatusStyle ==
    /\ call.op = "get_status_color" =>
          /\ call.raised = ""
          /\ Lower(call.status) \in StatusBuckets =>
                call.ret = StatusColors[Lower(call.status)]
          /\ Lower(call.status) \notin StatusBuckets => call.ret = "#607d8b"
          /\ call.status = "unknown" => call.ret = "#607d8b"
          /\ Lower(call.status) \in StatusBuckets \ {"unknown"} => call.ret # "#607d8b"
    /\ call.op = "get_status_icon" =>
          /\ call.raised = ""
          /\ Lower(call.status) \in StatusBuckets =>
                call.ret = StatusIcons[Lower(call.status)]
          /\ Lower(call.status) \notin StatusBuckets => call.ret = "?"
          /\ call.status = "unknown" => call.ret = "?"
          /\ Lower(call.status) \in StatusBuckets \ {"unknown"} => call.ret # "?"

\* C15 witness: 'FAILED' has been given the color of 'failed'.
C15_Witness ==
    /\ call.op = "get_status_color"
    /\ call.status = "FAILED"
    /\ call.ret = "#f44336"

\* how many loaded records have the lower-cased status s
CountOf(s) == Cardinality({i \in 1..Len(results) : StatusOf(results[i]) = s})

\* the lower-cased statuses of the loaded records
SeenStatuses == {StatusOf(results[i]) : i \in 1..Len(results)}

\* C16: get_statistics returns one bucket for each of the five predefined
\* statuses and one for every other lower-cased status among the records,
\* each holding the number of records of that status, beside 'total'.
C16_BucketCounts ==
    Returned("get_statistics") =>
        /\ DOMAIN Stats = StatusBuckets \cup SeenStatuses \cup {"total"}
        /\ \A s \in StatusBuckets \cup SeenStatuses : Stats[s] = CountOf(s)

\* C17: the document has one test card per loaded record, in display order,
\* and the card at display position i (from 0) carries i in its toggle
\* handler, its body id and its icon id.
C17_PositionalIndex ==
    Returned("generate_html") =>
        /\ Len(Doc.tests) = Len(results)
        /\ \A i \in 1..Len(Doc.tests) :
              /\ Doc.tests[i].toggle = i - 1
              /\ Doc.tests[i].body_id = i - 1
              /\ Doc.tests[i].icon_id = i - 1
              /\ Doc.tests[i].name = Get(sorted_results(results)[i], "name", "Unknown Test")
        /\ {Doc.tests[i].toggle : i \in 1..Len(Doc.tests)} = 0..(Len(results) - 1)

\* C17 witness: three records have been rendered with the indices 0, 1, 2.
C17_Witness ==
    /\ Returned("generate_html")
    /\ Len(results) = 3
    /\ [i \in 1..3 |-> Doc.tests[i].body_id] = <<0, 1, 2>>

\* the failure section of a test card, as a sequence of at most one section
FailureSections(card) ==
    SelectSeq(card.sections, LAMBDA sec : sec.section = "error")

\* C18: the card of a record has the failure section exactly when the
\* record's statusDetails message or trace is non-empty; the section holds
\* the message element exactly when the message is non-empty and the trace
\* element exactly when the trace is non-empty, whatever the status.
C18_FailureSection ==
    (Returned("generate_html") /\ Len(results) = 1) =>
        LET details == Get(results[1], "statusDetails", EmptyDict)
            message == Get(details, "message", "")
            trace   == Get(details, "trace", "")
            found   == FailureSections(Doc.tests[1])
            has(e)  == \E k \in 1..Len(found[1].items) : found[1].items[k].element = e
        IN  /\ Len(found) = IF message # "" \/ trace # "" THEN 1 ELSE 0
            /\ Len(found) = 1 =>
                  /\ has("message") <=> message # ""
                  /\ has("trace") <=> trace # ""
                  /\ \A k \in 1..Len(found[1].items) :
                        found[1].items[k].text
                            = IF found[1].items[k].element = "message"
                              THEN message ELSE trace

\* C18 witness: a passed record with a trace and no message has been
\* rendered with a failure section that holds the trace only.
C18_Witness ==
    /\ Returned("generate_html")
    /\ Len(results) = 1
    /\ results[1] = [name |-> "test_p", status |-> "passed",
                     statusDetails |-> [trace |-> "Traceback"]]
    /\ FailureSections(Doc.tests[1])
         = << [section |-> "error",
               items |-> <<[element |-> "trace", text |-> "Traceback"]>>] >>

\* the display tier of the bucket a card's status is counted in
BucketTier(status) ==
    IF status = "failed" THEN 0 ELSE IF status = "broken" THEN 1 ELSE 2

\* C20: the cards are ordered by the tier of the bucket get_statistics counts
\* them in: every record counted as failed comes before every record counted
\* as broken, and those before all others, also when the status is not in
\* lower case.
C20_CountedTierOrder ==
    Returned("generate_html") =>
        \A i, j \in 1..Len(Doc.tests) :
            i < j => BucketTier(Doc.tests[i].status) <= BucketTier(Doc.tests[j].status)

-----------------------------------------------------------------------------
(* C12..C14: the HTTP client and the order models.                         *)

\* the last client call got a response from the server
Answered ==
    /\ request.op \in {"get", "post", "put", "delete"}
    /\ request.reply # NoResponse

\* the value the claimed rule gives for a body: its JSON value when the
\* body is JSON, its text otherwise
ParsedOrText(text) == IF IsJson(text) THEN json(text) ELSE PyStr(text)

\* C12: when the server answers get or delete with an error HTTP status,
\* the call raises to its caller if expected_error is false, and returns
\* the response body without raising if expected_error is true.
C12_ExpectedErrorFlag ==
    ( /\ Answered
      /\ request.op \in {"get", "delete"}
      /\ IsErrorStatus(request.reply.status_code) ) =>
        IF request.expected_error
        THEN /\ request.out.raised = ""
             /\ request.out.ret = ParsedOrText(request.reply.text)
        ELSE request.out.raised # ""

ReportedErrors ==
    IF order.out.raised = "" THEN {} ELSE order.out.errors

\* C14: Order and OrderCreate reject the status exactly when it is given
\* and is not one of 'placed', 'approved', 'delivered'; a rejected
\* construction raises ValidationError and yields no object; an accepted
\* one holds the given status, or 'placed' when none was given.
C14_StatusAllowList ==
    order.op \in {"Order", "OrderCreate"} =>
        LET given   == "status" \in DOMAIN order.args
            allowed == given => order.args["status"] \in {"placed", "approved", "delivered"}
        IN  /\ "status" \in ReportedErrors <=> ~allowed
            /\ ~allowed => /\ order.out.raised = "ValidationError"
                           /\ "obj" \notin DOMAIN order.out
            /\ (allowed /\ ReportedErrors = {}) =>
                  /\ order.out.raised = ""
                  /\ order.out.obj.status
                       = IF given THEN order.args["status"] ELSE "placed"
            /\ order.out.raised = "" =>
                  order.out.obj.status \in {"placed", "approved", "delivered"}

\* C14 witness: OrderCreate has rejected 'Placed' with every other field
\* valid.
C14_Witness ==
    /\ order.op = "OrderCreate"
    /\ order.args = [petId |-> 1, quantity |-> 1, status |-> "Placed"]
    /\ order.out = [raised |-> "ValidationError", errors |-> {"status"}]

-----------------------------------------------------------------------------
(* C19: the create_test_order fixture.                                     *)

\* the positions of the events of one kind
EventsOf(kind) == {i \in 1..Len(events) : events[i].ev = kind}

\* C19: the test body runs only after place_order has been answered and
\* receives the id the server returned; the cleanup delete_order comes
\* after the test body, for the id the test received; an exception
\* raised by the cleanup delete does not propagate; a finished run has
\* placed, tested and cleaned up once each.
C19_FixtureOrder ==
    /\ \A t \in EventsOf("test") :
          \E p \in EventsOf("place_order") :
              /\ p < t
              /\ events[p].raised = ""
              /\ events[t].order_id = events[p].server_id
    /\ \A c \in EventsOf("cleanup") :
          /\ \E t \in EventsOf("test") : events[c].order_id = events[t].order_id
          /\ \A t \in EventsOf("test") : t < c
          /\ \A p \in EventsOf("place_order") : p < c
          /\ events[c].propagated = ""
    /\ pc \in {"setup", "setup_error", "test"} => EventsOf("test") = {}
    /\ pc \in {"setup", "setup_error", "test", "teardown"} => EventsOf("cleanup") = {}
    /\ pc = "done" =>
          /\ Cardinality(EventsOf("place_order")) = 1
          /\ Cardinality(EventsOf("test")) = 1
          /\ Cardinality(EventsOf("cleanup")) = 1

\* C19 witness: the test has deleted the order itself and the cleanup
\* delete has raised AttributeError, which went no further.
C19_Witness ==
    /\ pc = "done"
    /\ \E t \in EventsOf("test") :
          /\ events[t].test = "test_delete_order"
          /\ events[t].raised = ""
          /\ events[t].order_id # PyNone
    /\ \E c \in EventsOf("cleanup") :
          /\ events[c].raised = "AttributeError"
          /\ events[c].propagated = ""

-----------------------------------------------------------------------------
(* C21..C23: repeated loads, the seconds printed, a request that fails.    *)

\* the total in the header of the document of the last render
LastTotal == rendered[Len(rendered)].out.ret.header.total

\* C21: after any number of load_results or generate calls over a directory
\* whose files all parse, results holds one record per result file and
\* containers one per container file, and the document generate() renders
\* reports the number of result files as its total.
C21_OneRecordPerFile ==
    ( /\ call.op \in {"load_results", "generate"}
      /\ call.raised = ""
      /\ loads >= 1 ) =>
        /\ Len(results) = Len(dir_results)
        /\ Len(containers) = Len(dir_containers)
        /\ call.op = "generate" => LastTotal = IntStr(Len(dir_results))

\* what format_duration printed after the minutes, if any
SecondsText ==
    IF \E i \in 1..Len(formatted) : formatted[i] = " "
    THEN SubSeq(formatted,
                (CHOOSE i \in 1..Len(formatted) : formatted[i] = " ") + 1,
                Len(formatted))
    ELSE formatted

\* the seconds value printed, in hundredths
SecondsPrinted == StrNat(SelectSeq(SecondsText, IsDigit))

\* C22: for every duration of 1000 ms or more the seconds value that
\* format_duration prints is below 60: neither "60.00s" nor a seconds part
\* of 60.00 after the minutes is ever printed.
C22_SecondsBelowSixty ==
    (formatted # <<>> /\ duration_ms >= 1000) => SecondsPrinted < 6000

\* the request type a client method hands to _request
RequestType(op) ==
    CASE op = "get" -> "GET"
      [] op = "post" -> "POST"
      [] op = "put" -> "PUT"
      [] op = "delete" -> "DELETE"

\* C23: when the session call raises a request exception and no response
\* exists, _request returns None without raising, for either value of
\* expected_error, and get, post, put and delete then raise AttributeError,
\* which is not the request's own exception, and return nothing.
C23_FailedRequest ==
    ( /\ request.op \in {"get", "post", "put", "delete"}
      /\ request.reply = NoResponse ) =>
        /\ \A expected_error \in BOOLEAN :
              _request(RequestType(request.op), NoResponse, expected_error)
                  = [raised |-> "", response |-> PyNone]
        /\ request.out.raised = "AttributeError"
        /\ request.out.raised # request.reply.failure
        /\ "ret" \notin DOMAIN request.out

\* C23 witness: get with expected_error set has raised AttributeError on a
\* connection failure.
C23_Witness ==
    /\ request.op = "get"
    /\ request.expected_error
    /\ request.reply = NoResponse
    /\ request.out = [raised |-> "AttributeError"]

====
